---- MODULE Spec2Model ----
(***************************************************************************)
(* Model of src/func.cpp of ispc: Function::GenerateIR, which plans the    *)
(* variants of one source function, and Function::emitCode, which drives   *)
(* the FunctionEmitContext through parameter marshaling, mask set-up and   *)
(* the all_on / some_on bifurcation of the body.                           *)
(*                                                                         *)
(* One function symbol `sym` is compiled.  A source file may define it     *)
(* more than once: every definition is its own Function object over the    *)
(* same Symbol, and GenerateIR is invoked once per Function object.        *)
(***************************************************************************)
EXTENDS Integers, Sequences, FiniteSets, TLC

VARIABLES
    g,           \* the globals read by func.cpp: target and optimisation flags
    sym,         \* the Symbol: its FunctionType, sym->function, sym->exportedFunction
    module,      \* m->module: LLVM function name -> the llvm::Function of that name
    errorCount,  \* m->errorCount
    calls,       \* number of GenerateIR invocations started so far
    this,        \* the Function object GenerateIR runs on (sym, code, cost of code)
    pc,          \* position inside GenerateIR / emitCode
    ret,         \* where the running emitCode returns to in GenerateIR
    ec,          \* the FunctionEmitContext of the running emitCode
    log,         \* what this GenerateIR invocation did so far, in order
    marshal,     \* one run of emitCode's parameter marshaling on its own
    symtab,      \* m->symbolTable as the last Function constructor found it
    heap,        \* the Symbol objects: name, type, parentFunction
    fn,          \* the Function object constructed last
    inst,        \* the TemplateInstantiation
    fate,        \* "running", or how the compiler process ended
    cmp,         \* one comparison of two template parameter or argument lists
    kernel,      \* one run of emitCode's kernel metadata registration on its own
    noalias      \* one copy of the NoAlias attributes to an application function

\* The variables of the studies of single operations, which GenerateIR and
\* its emitCode steps leave alone
aux == <<marshal, symtab, heap, fn, inst, fate, cmp, kernel, noalias>>

vars == <<g, sym, module, errorCount, calls, this, pc, ret, ec, log, marshal,
          symtab, heap, fn, inst, fate, cmp, kernel, noalias>>

-----------------------------------------------------------------------------
(* Bounds *)

\* GenerateIR invocations (definitions of the function in the source file)
MaxCalls == 2

\* errors that can be reported before the model stops reporting more
MaxErrors == 2

-----------------------------------------------------------------------------
(* Values *)

NULL == "NULL"

LLVMMaskAllOn == "LLVMMaskAllOn"

\* The function mask holds the all-on constant, the trailing mask argument
\* "__mask", the mask loaded from the task argument structure
\* "task_struct_mask", the value the context was constructed with
\* "ctx_initial", or a value stored by the body "body_mask".

\* The function kinds a declaration can have.  export, extern "C",
\* extern "SYCL" and task exclude each other; unmasked combines with each.
FunctionTypes ==
    { t \in [isTask : BOOLEAN, isExported : BOOLEAN, isExternC : BOOLEAN,
             isExternSYCL : BOOLEAN, isUnmasked : BOOLEAN] :
        Cardinality({q \in {"isTask", "isExported", "isExternC", "isExternSYCL"} : t[q]}) <= 1 }

\* g->target->isXeTarget(), g->mangleFunctionsWithTarget,
\* g->target->getMaskingIsFree(), g->opt.disableCoherentControlFlow,
\* g->opt.disableMaskAllOnOptimizations, ctx->emitXeHardwareMask()
Globals ==
    { c \in [isXeTarget : BOOLEAN, mangleFunctionsWithTarget : BOOLEAN,
             maskingIsFree : BOOLEAN, disableCoherentControlFlow : BOOLEAN,
             disableMaskAllOnOptimizations : BOOLEAN, emitXeHardwareMask : BOOLEAN] :
        c.emitXeHardwareMask => c.isXeTarget }

\* Function attributes a declaration can carry on sym->function
DeclaredAttrs == { {}, {"AlwaysInline"}, {"NoInline"} }

\* costEstimate - CHECK_MASK_AT_FUNCTION_START_COST for the bodies considered
CostDeltas == {0, 1}

-----------------------------------------------------------------------------
(* FunctionType queries *)

IsISPCKernel(type) == g.isXeTarget /\ type.isTask

IsISPCExternal(type) ==
    g.isXeTarget /\ (type.isExported \/ type.isExternC \/ type.isExternSYCL)

\* Whether LLVMFunctionType(ctx, removeMask) ends with the mask parameter
HasMaskParam(type, removeMask) ==
    ~(removeMask \/ type.isUnmasked \/ type.isExternC \/ type.isExternSYCL
        \/ IsISPCKernel(type))

\* name_pref + sym->name + name_suf for the internal or the application form
GetFunctionMangledName(type, appFunction) ==
    LET unmangled == type.isExternC \/ type.isExternSYCL
        base   == IF unmangled \/ appFunction THEN "f" ELSE "f___mangled"
        target == IF g.mangleFunctionsWithTarget /\ (~unmangled \/ appFunction)
                  THEN "_target" ELSE ""
    IN  base \o target

\* The name llvm::Function::Create gives a function asked to be `name`
CreatedName(name) == IF name \in DOMAIN module THEN name \o ".1" ELSE name

\* WantsAppFunction without "type->isExternC"
WantsAppFunction_NoExternC(type) ==
    type.isExported \/ type.isExternSYCL \/ IsISPCKernel(type)

\* The application-callable variant is wanted for these kinds
WantsAppFunction(type) ==
    type.isExported \/ type.isExternC \/ type.isExternSYCL
        \/ IsISPCExternal(type) \/ IsISPCKernel(type)

-----------------------------------------------------------------------------
(* FunctionEmitContext *)

NoCtx ==
    [function |-> NULL, mask |-> "ctx_initial", savedMask |-> NULL,
     checkMask |-> FALSE, bblock |-> NULL, blocks |-> {}, branch |-> FALSE,
     labelMap |-> 0, bodies |-> <<>>, ends |-> <<>>, rets |-> <<>>]

\* FunctionEmitContext ec(this, sym, function, firstStmtPos)
NewCtx(function) == [NoCtx EXCEPT !.function = function, !.bblock = "entry"]

SetFunctionMask(c, value) == [c EXCEPT !.mask = value]

InitializeLabelMap(c) == [c EXCEPT !.labelMap = @ + 1]

SetCurrentBasicBlock(c, bb) == [c EXCEPT !.bblock = bb]

\* ctx->ReturnInst(): terminates the current block
ReturnInst(c) == [c EXCEPT !.rets = Append(@, c.bblock), !.bblock = NULL]

\* ReturnIfOpen that inserts the return without looking at the block
ReturnIfOpen_Always(c) == ReturnInst(c)

\* if (ctx->GetCurrentBasicBlock()) ctx->ReturnInst();
ReturnIfOpen(c) == IF c.bblock # NULL THEN ReturnInst(c) ELSE c

\* The block the n-th emission of the body ends in when it falls through
BodyEnd(n) == "body_end" \o ToString(n)

\* code->EmitCode(ctx): the body is emitted from the current block, against
\* the current label map and under the current mask; it may store to the
\* function mask and may leave the last block open or terminated.  ends
\* keeps the block each emission left open, NULL when it left none.
EmitCode(c, maskAfter, open) ==
    LET end == IF open THEN BodyEnd(Len(c.bodies) + 1) ELSE NULL
    IN  [c EXCEPT !.bodies = Append(@, [bblock |-> c.bblock, mask |-> c.mask,
                                        labelMap |-> c.labelMap]),
                  !.ends = Append(@, end),
                  !.mask = maskAfter,
                  !.bblock = end]

-----------------------------------------------------------------------------
\* No symbol table, Function construction or template instantiation in play
NoSymbols ==
    /\ symtab = NULL
    /\ heap = NULL
    /\ fn = NULL
    /\ inst = NULL
    /\ fate = "running"

Init ==
    /\ g \in Globals
    /\ \E type \in FunctionTypes, attrs \in DeclaredAttrs :
          /\ sym = [type |-> type,
                    function |-> GetFunctionMangledName(type, FALSE),
                    exportedFunction |-> NULL]
          /\ module = (GetFunctionMangledName(type, FALSE) :>
                          [empty |-> TRUE, attrs |-> attrs,
                           hasMask |-> HasMaskParam(type, FALSE)])
    \* errors reported before code generation starts, e.g. by the type
    \* checking of another function of the module
    /\ errorCount \in {0, 1}
    /\ calls = 0
    /\ this = [sym |-> NULL, code |-> FALSE, costDelta |-> 0]
    /\ pc = "idle"
    /\ ret = NULL
    /\ ec = NoCtx
    /\ log = <<>>
    /\ marshal = NULL
    /\ NoSymbols
    /\ cmp = NULL
    /\ kernel = NULL
    /\ noalias = NULL

-----------------------------------------------------------------------------
(* Function::emitCode *)

\* Error(pos, ...): reports a diagnostic and counts it in m->errorCount
Error(what) == <<"Error", what>>

\* The mask after parameter marshaling (func.cpp 312-471), or "assert" when
\* one of the Asserts on the signature fails.
MarshalMask(type, hasMask, mask) ==
    IF type.isTask /\ ~g.isXeTarget
    THEN \* CPU task: the mask is the last member of the argument structure
         IF ~type.isUnmasked THEN "task_struct_mask" ELSE mask
    ELSE IF ~hasMask
         THEN \* argIter == function->arg_end(): no mask parameter
              IF type.isUnmasked \/ type.isExported \/ type.isExternC
                    \/ type.isExternSYCL \/ IsISPCExternal(type) \/ IsISPCKernel(type)
              THEN LLVMMaskAllOn ELSE "assert"
         ELSE IF type.isUnmasked THEN "assert"
              ELSE IF g.emitXeHardwareMask THEN LLVMMaskAllOn ELSE "__mask"

\* CheckMask without "checkMask &= (g->target->getMaskingIsFree() == false)"
CheckMask_IgnoresMaskingIsFree(type, attrs, costDelta) ==
    /\ (~g.isXeTarget /\ type.isTask) \/ (("AlwaysInline" \notin attrs) /\ costDelta > 0)
    /\ type.isUnmasked = FALSE
    /\ g.disableCoherentControlFlow = FALSE

\* bool checkMask = ...; checkMask &= ...; (func.cpp 488-498)
CheckMask(type, attrs, costDelta) ==
    LET c0 == (~g.isXeTarget /\ type.isTask)
                \/ (("AlwaysInline" \notin attrs) /\ costDelta > 0)
        c1 == c0 /\ (type.isUnmasked = FALSE)
        c2 == c1 /\ (g.maskingIsFree = FALSE)
        c3 == c2 /\ (g.disableCoherentControlFlow = FALSE)
    IN  c3

\* func.cpp 501-516: capture the mask, create the two blocks, set up the goto
\* targets, branch, and enter the all_on block.
AllOnSetup(c) ==
    LET c1 == [c EXCEPT !.savedMask = c.mask,
                        !.blocks = @ \cup {"all_on", "some_on"}]
        c2 == InitializeLabelMap(c1)
        c3 == [c2 EXCEPT !.branch = TRUE]
        c4 == SetCurrentBasicBlock(c3, "all_on")
    IN  IF ~g.disableMaskAllOnOptimizations
        THEN SetFunctionMask(c4, LLVMMaskAllOn) ELSE c4

\* SomeOnSetup without "ctx->SetFunctionMask(mask)"
SomeOnSetup_NoRestore(c) ==
    InitializeLabelMap(SetCurrentBasicBlock(c, "some_on"))

\* SomeOnSetup without the second "ctx->InitializeLabelMap(code)"
SomeOnSetup_SharedLabels(c) ==
    SetFunctionMask(SetCurrentBasicBlock(c, "some_on"), c.savedMask)

\* func.cpp 526-532: enter the some_on block, restore the mask, and set up a
\* second set of goto targets.
SomeOnSetup(c) ==
    InitializeLabelMap(SetFunctionMask(SetCurrentBasicBlock(c, "some_on"), c.savedMask))

\* PlainSetup that forces the mask all on, as the all_on block does
PlainSetup_ForcesAllOn(c) == InitializeLabelMap(SetFunctionMask(c, LLVMMaskAllOn))

\* func.cpp 538-539: no mask check, only the goto targets
PlainSetup(c) == InitializeLabelMap(c)

\* func.cpp 292-474: bind __mask, function attributes, parameter marshaling
EmitParams ==
    /\ pc = "ec_params"
    /\ LET m == MarshalMask(sym.type, module[ec.function].hasMask, ec.mask)
       IN  IF m = "assert"
           THEN pc' = "abort" /\ ec' = ec
           ELSE pc' = "ec_decide" /\ ec' = SetFunctionMask(ec, m)
    /\ UNCHANGED <<g, sym, module, errorCount, calls, this, ret, log>>
    /\ UNCHANGED aux

\* func.cpp 477-516 and 538-539: decide checkMask and set up the body emission
EmitDecide ==
    /\ pc = "ec_decide"
    /\ IF ~this.code
       THEN pc' = "ec_end" /\ ec' = ec
       ELSE LET cm == CheckMask(sym.type, module[ec.function].attrs, this.costDelta)
                c  == [ec EXCEPT !.checkMask = cm]
            IN  IF cm
                THEN pc' = "ec_allon" /\ ec' = AllOnSetup(c)
                ELSE pc' = "ec_plain" /\ ec' = PlainSetup(c)
    /\ UNCHANGED <<g, sym, module, errorCount, calls, this, ret, log>>
    /\ UNCHANGED aux

\* What a body emission leaves behind besides the code: errors it reported
BodyErrors(err) ==
    /\ err => errorCount < MaxErrors
    /\ errorCount' = IF err THEN errorCount + 1 ELSE errorCount
    /\ log' = IF err THEN Append(log, Error("body")) ELSE log

\* func.cpp 517-532: the all_on copy, its return, and the some_on set-up
EmitBodyAllOn ==
    /\ pc = "ec_allon"
    /\ \E maskAfter \in {ec.mask, "body_mask"}, open \in BOOLEAN, err \in BOOLEAN :
          /\ BodyErrors(err)
          /\ ec' = SomeOnSetup(ReturnIfOpen(EmitCode(ec, maskAfter, open)))
    /\ pc' = "ec_someon"
    /\ UNCHANGED <<g, sym, module, calls, this, ret>>
    /\ UNCHANGED aux

\* func.cpp 534-536: the some_on copy and its return
EmitBodySomeOn ==
    /\ pc = "ec_someon"
    /\ \E maskAfter \in {ec.mask, "body_mask"}, open \in BOOLEAN, err \in BOOLEAN :
          /\ BodyErrors(err)
          /\ ec' = ReturnIfOpen(EmitCode(ec, maskAfter, open))
    /\ pc' = "ec_end"
    /\ UNCHANGED <<g, sym, module, calls, this, ret>>
    /\ UNCHANGED aux

\* func.cpp 541: the only copy
EmitBodyPlain ==
    /\ pc = "ec_plain"
    /\ \E maskAfter \in {ec.mask, "body_mask"}, open \in BOOLEAN, err \in BOOLEAN :
          /\ BodyErrors(err)
          /\ ec' = EmitCode(ec, maskAfter, open)
    /\ pc' = "ec_end"
    /\ UNCHANGED <<g, sym, module, calls, this, ret>>
    /\ UNCHANGED aux

\* func.cpp 545-642: the implicit return, the kernel's launch attribute, and
\* the return to GenerateIR
EmitEpilogue ==
    /\ pc = "ec_end"
    /\ ec' = ReturnIfOpen(ec)
    /\ module' = IF IsISPCKernel(sym.type)
                 THEN [module EXCEPT ![ec.function].attrs = @ \cup {"oclrt"}]
                 ELSE module
    /\ pc' = ret
    /\ ret' = NULL
    /\ UNCHANGED <<g, sym, errorCount, calls, this, log>>
    /\ UNCHANGED aux

-----------------------------------------------------------------------------
(* Function::GenerateIR *)

\* EmitsInternal with the extern "C" exception applied on every target
EmitsInternal_ExceptionOnXe(type) ==
    /\ ~IsISPCKernel(type)
    /\ ~((type.isExternC \/ type.isExternSYCL) /\ g.mangleFunctionsWithTarget)

\* func.cpp 678-702: whether the internal form is emitted
EmitsInternal(type) ==
    IF g.isXeTarget
    THEN ~IsISPCKernel(type)
    ELSE ~((type.isExternC \/ type.isExternSYCL) /\ g.mangleFunctionsWithTarget)

\* The Function objects GenerateIR can be invoked on: no symbol after an
\* earlier error, a declaration without body, a cheap or an expensive body
Functions ==
    { f \in [sym : {NULL, "f"}, code : BOOLEAN, costDelta : CostDeltas] :
        (f.code = FALSE \/ f.sym = NULL) => f.costDelta = 0 }

\* DefinedExternSYCL that lets the definition through
DefinedExternSYCL_Accepted(type) == FALSE

\* func.cpp 661: a function with a definition that is declared extern "SYCL"
DefinedExternSYCL(type) == type.isExternSYCL

\* func.cpp 644-702: the early returns and the internal form
GenerateIR ==
    /\ pc = "idle"
    /\ calls < MaxCalls
    /\ calls' = calls + 1
    /\ \E f \in Functions :
        /\ this' = f
        /\ IF f.sym = NULL
           THEN /\ log' = <<>>
                /\ UNCHANGED <<module, errorCount, pc, ret, ec>>
           ELSE IF module[sym.function].empty = FALSE
           THEN /\ errorCount < MaxErrors
                /\ errorCount' = errorCount + 1
                /\ log' = <<Error("redefinition")>>
                /\ UNCHANGED <<module, pc, ret, ec>>
           ELSE IF DefinedExternSYCL(sym.type)
           THEN /\ errorCount < MaxErrors
                /\ errorCount' = errorCount + 1
                /\ log' = <<Error("externSYCL")>>
                /\ UNCHANGED <<module, pc, ret, ec>>
           ELSE IF EmitsInternal(sym.type)
           THEN /\ ec' = NewCtx(sym.function)
                /\ module' = [module EXCEPT ![sym.function].empty = FALSE]
                /\ log' = <<<<"emitCode", sym.function>>>>
                /\ pc' = "ec_params"
                /\ ret' = "gen_app"
                /\ UNCHANGED errorCount
           ELSE /\ log' = <<>>
                /\ pc' = "gen_app"
                /\ UNCHANGED <<module, errorCount, ret, ec>>
    /\ UNCHANGED <<g, sym>>
    /\ UNCHANGED aux

\* AppFunction built from LLVMFunctionType(g->ctx) instead of (g->ctx, true)
AppFunction_KeepsMask(type) ==
    [empty |-> TRUE, attrs |-> {}, hasMask |-> HasMaskParam(type, FALSE)]

\* func.cpp 713-746: the application function as created in the module
AppFunction(type) ==
    [empty |-> TRUE,
     attrs |-> IF g.isXeTarget
               THEN IF IsISPCExternal(type) THEN {"CMStackCall"}
                    ELSE IF IsISPCKernel(type) THEN {"CMGenxMain"} ELSE {}
               ELSE {},
     hasMask |-> HasMaskParam(type, TRUE)]

\* func.cpp 762-777: an internal-only function on an accelerator target
MarkInternal(attrs) ==
    IF g.isXeTarget
    THEN attrs \cup {"CMStackCall"}
           \cup (IF attrs \cap {"NoInline", "AlwaysInline"} = {} THEN {"AlwaysInline"} ELSE {})
    ELSE attrs

\* func.cpp 704-756 and 761-779: after the internal form
GenerateApp ==
    /\ pc = "gen_app"
    /\ LET type         == sym.type
           functionName == GetFunctionMangledName(type, TRUE)
           created      == CreatedName(functionName)
       IN  IF errorCount = 0
           THEN IF WantsAppFunction(type)
                THEN IF created # functionName
                     THEN \* appFunction->eraseFromParent()
                          /\ log' = log \o << <<"Create", created>>, <<"erase", created>> >>
                          /\ pc' = "idle"
                          /\ ec' = NoCtx
                          /\ UNCHANGED <<module, ret>>
                     ELSE /\ module' = (functionName :> [AppFunction(type) EXCEPT !.empty = FALSE])
                                          @@ module
                          /\ log' = log \o << <<"Create", created>>, <<"emitCode", created>> >>
                          /\ ec' = NewCtx(functionName)
                          /\ pc' = "ec_params"
                          /\ ret' = "gen_finish"
                ELSE /\ module' = [module EXCEPT ![sym.function].attrs = MarkInternal(@)]
                     /\ pc' = "idle"
                     /\ ec' = NoCtx
                     /\ UNCHANGED <<ret, log>>
           ELSE /\ pc' = "idle"
                /\ ec' = NoCtx
                /\ UNCHANGED <<module, ret, log>>
    /\ UNCHANGED <<g, sym, errorCount, calls, this>>
    /\ UNCHANGED aux

\* func.cpp 757-759: record the exported counterpart
GenerateFinish ==
    /\ pc = "gen_finish"
    /\ sym' = IF errorCount = 0
              THEN [sym EXCEPT !.exportedFunction = ec.function] ELSE sym
    /\ pc' = "idle"
    /\ ec' = NoCtx
    /\ UNCHANGED <<g, module, errorCount, calls, this, ret, log>>
    /\ UNCHANGED aux

-----------------------------------------------------------------------------
Next ==
    \/ GenerateIR
    \/ EmitParams
    \/ EmitDecide
    \/ EmitBodyAllOn
    \/ EmitBodySomeOn
    \/ EmitBodyPlain
    \/ EmitEpilogue
    \/ GenerateApp
    \/ GenerateFinish

Spec == Init /\ [][Next]_vars

-----------------------------------------------------------------------------
(* Vocabulary of the properties *)

\* emitCode has returned to GenerateIR and its context is still in scope
EmitCodeDone == pc \in {"gen_app", "gen_finish"} /\ ec.function # NULL

\* A GenerateIR invocation on a Function with a symbol has run to its end
CallDone == pc = "idle" /\ calls > 0 /\ this.sym # NULL

\* Some representation of the symbol has a body in the module
BodyEmitted == \E n \in DOMAIN module : module[n].empty = FALSE

\* The invocation got past the redefinition and extern "SYCL" checks
PastEarlyReturns ==
    \A i \in 1..Len(log) :
        log[i] \notin {Error("redefinition"), Error("externSYCL")}

\* emitCode ran on sym->function in this invocation
InternalEmitted == Len(log) > 0 /\ log[1] = <<"emitCode", sym.function>>

\* Position in the log at which the application function was created, or 0
CreateAt ==
    IF \E i \in 1..Len(log) : log[i][1] = "Create"
    THEN CHOOSE i \in 1..Len(log) : log[i][1] = "Create"
    ELSE 0

\* emitCode ran on a freshly created application function in this invocation
AppEmitted == CreateAt > 0 /\ Len(log) > CreateAt /\ log[CreateAt + 1][1] = "emitCode"

\* The freshly created application function was erased in this invocation
AppDiscarded == CreateAt > 0 /\ Len(log) > CreateAt /\ log[CreateAt + 1][1] = "erase"

\* The functions emitCode ran on in this invocation, in order
EmitCodeRuns == SelectSeq(log, LAMBDA e : e[1] = "emitCode")

\* Errors reported by this invocation before the application stage
ErrorsBeforeApp ==
    Cardinality({i \in 1..Len(log) :
                    log[i][1] = "Error" /\ (CreateAt = 0 \/ i < CreateAt)})

\* The kinds that get an application-callable variant, spelled out
ExternallyCallable ==
    \/ sym.type.isExported
    \/ sym.type.isExternC
    \/ sym.type.isExternSYCL
    \/ (g.isXeTarget /\ sym.type.isTask)

-----------------------------------------------------------------------------
(* C1 *)

\* C1: mask-scoping law.  With checkMask true, the mask in the context when
\* the some_on copy is about to be emitted is the value captured before the
\* all_on/some_on branch, which is the mask parameter marshaling installed;
\* the all-on override of the all_on block and whatever the first body
\* emission stored are gone, with or without disableMaskAllOnOptimizations.
C1_MaskRestoredInSomeOn ==
    /\ [](pc = "ec_someon" => ec.mask = ec.savedMask)
    /\ [][pc = "ec_decide" /\ pc' = "ec_allon" => ec'.savedMask = ec.mask]_vars

\* The all_on copy ran under the all-on override and the some_on block starts
\* under the incoming mask argument again
C1_Witness ==
    /\ pc = "ec_someon"
    /\ ec.bodies[1].mask = LLVMMaskAllOn
    /\ ec.mask = "__mask"

(* C2 *)

\* C2: goto-label blocks are never shared.  The i-th body emission of an
\* emitCode run works against the i-th label map of that run, so each copy
\* has its own; when emitCode is done with a body, InitializeLabelMap ran
\* twice with checkMask true and once with checkMask false.
C2_LabelMapPerBodyCopy ==
    /\ \A i \in 1..Len(ec.bodies) : ec.bodies[i].labelMap = i
    /\ (EmitCodeDone /\ this.code) =>
          /\ ec.labelMap = (IF ec.checkMask THEN 2 ELSE 1)
          /\ Len(ec.bodies) = ec.labelMap

C2_Witness ==
    /\ EmitCodeDone
    /\ ec.checkMask
    /\ Len(ec.bodies) = 2
    /\ ec.bodies[1].labelMap # ec.bodies[2].labelMap

(* C3 *)

\* C3: checkMask is ((isTask and not accelerator) or (not AlwaysInline and
\* cost above the threshold)) and not isUnmasked and not maskingIsFree and
\* not disableCoherentControlFlow, and the mask check is emitted exactly then.
C3_CheckMaskFormula ==
    (pc \in {"ec_allon", "ec_plain"}) =>
        /\ ec.checkMask =
              (/\ \/ (sym.type.isTask /\ ~g.isXeTarget)
                  \/ ("AlwaysInline" \notin module[ec.function].attrs /\ this.costDelta > 0)
               /\ ~sym.type.isUnmasked
               /\ ~g.maskingIsFree
               /\ ~g.disableCoherentControlFlow)
        /\ ec.checkMask = (pc = "ec_allon")

\* A CPU task with a cheap body still gets the mask check
C3_Witness ==
    /\ pc = "ec_allon"
    /\ sym.type.isTask
    /\ this.costDelta = 0
    /\ ec.checkMask

(* C4 *)

\* C4: with a body and checkMask false, emitCode creates no all_on/some_on
\* block and no conditional branch, emits the body exactly once, and leaves
\* the function mask as parameter marshaling set it up to the body emission.
C4_NoCheckStraightLine ==
    /\ []((pc = "ec_plain" \/ (EmitCodeDone /\ this.code /\ ~ec.checkMask)) =>
            /\ ec.blocks = {}
            /\ ~ec.branch
            /\ Len(ec.bodies) = (IF pc = "ec_plain" THEN 0 ELSE 1))
    /\ [][pc = "ec_decide" /\ pc' = "ec_plain" => ec'.mask = ec.mask]_vars
    /\ [][pc = "ec_plain" => ec'.bodies = <<[bblock |-> ec.bblock, mask |-> ec.mask,
                                             labelMap |-> 1]>>]_vars

\* A masked, non-task function with a cheap body after its only body emission
C4_Witness ==
    /\ EmitCodeDone
    /\ this.code /\ this.costDelta = 0
    /\ ~sym.type.isTask /\ ~sym.type.isUnmasked
    /\ Len(ec.bodies) = 1
    /\ ec.bodies[1].mask = "__mask"

(* C5 *)

\* C5: for an exported, masked, non-task function on a non-accelerator
\* target, an invocation that ends with no error reported ran emitCode twice,
\* on the internal function and then on a newly created application function
\* that has the requested application name and no mask parameter, and
\* sym->exportedFunction is that application function.
C5_ExportedTwoVariants ==
    (/\ CallDone
     /\ sym.type.isExported /\ ~sym.type.isUnmasked /\ ~sym.type.isTask
     /\ ~g.isXeTarget
     /\ errorCount = 0)
    => LET app == GetFunctionMangledName(sym.type, TRUE)
       IN  /\ log = << <<"emitCode", sym.function>>, <<"Create", app>>,
                       <<"emitCode", app>> >>
           /\ app # sym.function
           /\ module[sym.function].hasMask
           /\ ~module[app].hasMask
           /\ ~module[sym.function].empty /\ ~module[app].empty
           /\ sym.exportedFunction = app

C5_Witness ==
    /\ CallDone
    /\ sym.type.isExported /\ ~sym.type.isUnmasked /\ ~g.isXeTarget
    /\ errorCount = 0
    /\ Len(EmitCodeRuns) = 2
    /\ sym.exportedFunction = "f"

(* C6 *)

\* C6: redefinition.  GenerateIR invoked for a symbol of which a body was
\* already emitted reports exactly one error and does nothing else: it
\* returns at once, the module and the symbol are as before.
C6_RedefinitionReportedOnce ==
    [][(pc = "idle" /\ calls' = calls + 1 /\ this'.sym # NULL /\ BodyEmitted) =>
          /\ errorCount' = errorCount + 1
          /\ log' = <<Error("redefinition")>>
          /\ pc' = "idle"
          /\ module' = module
          /\ sym' = sym]_vars

(* C7 *)

\* C7 as stated: the application-callable variant is emitted if and only if
\* this invocation reported no error before the application stage and the
\* function is exported, extern "C", extern "SYCL", ISPC-external or a kernel.
C7_AppVariantIffNoOwnError ==
    (CallDone /\ PastEarlyReturns) =>
        (AppEmitted <=> (ErrorsBeforeApp = 0 /\ ExternallyCallable))

\* C7 amended: after the internal-form step GenerateIR runs emitCode on the
\* application function if and only if the module's error count, whichever
\* function the errors are from, is zero, the function is one of the
\* externally callable kinds, and the requested name is not yet taken in the
\* module; the variant is emitted in no other place.
C7_AppVariantIffModuleErrorFree ==
    /\ [][pc = "gen_app" =>
            ((pc' = "ec_params" /\ ec'.function = GetFunctionMangledName(sym.type, TRUE))
               <=> (/\ errorCount = 0
                    /\ ExternallyCallable
                    /\ GetFunctionMangledName(sym.type, TRUE) \notin DOMAIN module))]_vars
    /\ [][AppEmitted' /\ ~AppEmitted => pc = "gen_app"]_vars

\* An exported function whose own emission reported nothing, after an error
\* reported earlier in the module: no application-callable variant
C7_Witness ==
    /\ CallDone
    /\ sym.type.isExported
    /\ InternalEmitted
    /\ ErrorsBeforeApp = 0
    /\ errorCount > 0
    /\ ~AppEmitted

(* C8 *)

\* C8: whenever the freshly created application function is erased, an error
\* has been reported: the module's error count is nonzero.
C8_DiscardOnlyAfterError == AppDiscarded => errorCount # 0

(* C9 *)

\* C9: on an accelerator target, GenerateIR for a kernel with error count
\* zero runs emitCode exactly once, on the application function; the
\* internal function gets no body.
C9_KernelEmittedOnce ==
    (CallDone /\ g.isXeTarget /\ sym.type.isTask /\ errorCount = 0) =>
        /\ Len(EmitCodeRuns) = 1
        /\ AppEmitted
        /\ EmitCodeRuns[1][2] # sym.function
        /\ module[sym.function].empty

(* C10 *)

\* The internal form is left without body and emitCode ran on nothing else
\* than the application function
OnlyAppVariant ==
    /\ module[sym.function].empty
    /\ \A i \in 1..Len(EmitCodeRuns) : EmitCodeRuns[i][2] # sym.function

\* C10 as stated: on every target, an invocation for a non-kernel function
\* emits the internal form unless the function is extern "C"/"SYCL" and
\* mangleFunctionsWithTarget is set, and then only the application variant.
C10_InternalUnlessExternMangled ==
    (CallDone /\ PastEarlyReturns /\ ~(g.isXeTarget /\ sym.type.isTask)) =>
        LET excepted == (sym.type.isExternC \/ sym.type.isExternSYCL)
                           /\ g.mangleFunctionsWithTarget
        IN  /\ InternalEmitted <=> ~excepted
            /\ excepted => OnlyAppVariant

\* C10 amended: the exception holds on non-accelerator targets only; on an
\* accelerator target the internal form of every non-kernel function is
\* emitted, whatever mangleFunctionsWithTarget is.
C10_InternalUnlessExternMangledOnCPU ==
    (CallDone /\ PastEarlyReturns /\ ~(g.isXeTarget /\ sym.type.isTask)) =>
        LET excepted == /\ ~g.isXeTarget
                        /\ sym.type.isExternC \/ sym.type.isExternSYCL
                        /\ g.mangleFunctionsWithTarget
        IN  /\ InternalEmitted <=> ~excepted
            /\ excepted => OnlyAppVariant

\* An extern "C" function on an accelerator target with target mangling on:
\* both the internal form and the application variant are emitted
C10_Witness ==
    /\ CallDone
    /\ g.isXeTarget /\ g.mangleFunctionsWithTarget /\ sym.type.isExternC
    /\ InternalEmitted
    /\ AppEmitted

-----------------------------------------------------------------------------
(* C11 *)

\* C11: GenerateIR on a function with a symbol that is declared extern "SYCL"
\* reports one error and returns: it runs emitCode on nothing, creates no
\* function and leaves the module and the symbol as they were.  Hence no
\* step of emitCode or of the application stage ever runs for an
\* extern "SYCL" function, and its function stays without a body.
C11_ExternSYCLDefinitionRejected ==
    /\ [][(pc = "idle" /\ calls' = calls + 1 /\ this'.sym # NULL
              /\ sym.type.isExternSYCL)
            => /\ errorCount' = errorCount + 1
               /\ log' = <<Error("externSYCL")>>
               /\ pc' = "idle"
               /\ module' = module /\ sym' = sym /\ ec' = ec]_vars
    /\ [](sym.type.isExternSYCL =>
            /\ pc = "idle"
            /\ ec = NoCtx
            /\ DOMAIN module = {sym.function}
            /\ module[sym.function].empty
            /\ sym.exportedFunction = NULL
            /\ \A i \in 1..Len(log) : log[i][1] \notin {"emitCode", "Create"})

\* A definition of an extern "SYCL" function has been rejected
C11_Witness ==
    /\ CallDone
    /\ sym.type.isExternSYCL
    /\ log = <<Error("externSYCL")>>
    /\ errorCount > 0

-----------------------------------------------------------------------------
(* Function::emitCode: parameter marshaling against the signature *)

\* declared parameters of the functions considered
MaxParams == 2

\* arguments of the llvm::Function beyond the declared parameters
MaxExtraArgs == 2

\* The Symbol of the i-th declared parameter
ParamSym(i) == "param" \o ToString(i)

\* this->args: one entry per declared parameter, NULL for an anonymous one
ArgLists ==
    UNION { { a \in [1..n -> {NULL} \cup {ParamSym(i) : i \in 1..n}] :
                \A i \in 1..n : a[i] \in {NULL, ParamSym(i)} } : n \in 0..MaxParams }

\* TaskSignature with the three counts read before the three indices
TaskSignature_CountsFirst ==
    <<"structParamPtr", "threadIndex", "threadCount", "taskIndex", "taskCount",
      "taskCount0", "taskCount1", "taskCount2",
      "taskIndex0", "taskIndex1", "taskIndex2">>

\* func.cpp 320-330: the locals that take the successive arguments of a CPU
\* task's function, in the order the iterator hands them out
TaskSignature ==
    <<"structParamPtr", "threadIndex", "threadCount", "taskIndex", "taskCount",
      "taskIndex0", "taskIndex1", "taskIndex2",
      "taskCount0", "taskCount1", "taskCount2">>

\* threadIndexSym ... taskCountSym2, by the name each was looked up under
TaskSymbols ==
    <<"threadIndex", "threadCount", "taskIndex", "taskCount",
      "taskIndex0", "taskIndex1", "taskIndex2",
      "taskCount0", "taskCount1", "taskCount2">>

\* func.cpp 445-469: the builtin whose call gives the symbol its value on Xe
XeTaskBuiltin ==
    [threadIndex |-> "__task_index", threadCount |-> "__task_count",
     taskIndex |-> "__task_index", taskCount |-> "__task_count",
     taskIndex0 |-> "__task_index0", taskIndex1 |-> "__task_index1",
     taskIndex2 |-> "__task_index2", taskCount0 |-> "__task_count0",
     taskCount1 |-> "__task_count1", taskCount2 |-> "__task_count2"]

\* The state of one marshaling run: the args of the Function, the number of
\* arguments of the llvm::Function, how many of them the iterator has handed
\* out, what each was taken for (NULL: skipped), where the value stored to
\* each symbol's storageInfo comes from, and the function mask.
NewMarshal(args, nSig) ==
    [args |-> args, nSig |-> nSig, argIter |-> 0, reads |-> <<>>,
     storage |-> <<>>, mask |-> "ctx_initial", status |-> "start"]

\* func.cpp 258-275: copy args[i] out of element i of the argument structure
\* (elements count from 0, the sequence from 1)
lCopyInTaskParameter(i, m) ==
    IF m.args[i] = NULL
    THEN m
    ELSE [m EXCEPT !.storage = (m.args[i] :> <<"struct", i - 1>>) @@ @]

RECURSIVE CopyInTaskParameters(_, _)
\* func.cpp 337-338
CopyInTaskParameters(m, i) ==
    IF i > Len(m.args) THEN m
    ELSE CopyInTaskParameters(lCopyInTaskParameter(i, m), i + 1)

\* CopyInParameter whose "continue" skips the increment of the iterator
CopyInParameter_AnonymousTakesNoPosition(m, i) ==
    IF m.args[i] = NULL
    THEN m
    ELSE [m EXCEPT !.reads = Append(@, m.args[i]),
                   !.storage = (m.args[i] :> <<"arg", m.argIter + 1>>) @@ @,
                   !.argIter = @ + 1]

\* func.cpp 383-408, one iteration: "++argIter" is in the loop header, so
\* the "continue" of an anonymous parameter advances the iterator as well
CopyInParameter(m, i) ==
    IF m.args[i] = NULL
    THEN [m EXCEPT !.reads = Append(@, NULL), !.argIter = @ + 1]
    ELSE [m EXCEPT !.reads = Append(@, m.args[i]),
                   !.storage = (m.args[i] :> <<"arg", m.argIter + 1>>) @@ @,
                   !.argIter = @ + 1]

RECURSIVE CopyInParameters(_, _)
\* func.cpp 383-409
CopyInParameters(m, i) ==
    IF i > Len(m.args) THEN m
    ELSE CopyInParameters(CopyInParameter(m, i), i + 1)

\* The place of local x in the sequence of reads
ReadAt(reads, x) == CHOOSE k \in 1..Len(reads) : reads[k] = x

\* func.cpp 312-471
MarshalParameters(type, m) ==
    IF type.isTask /\ ~g.isXeTarget
    THEN LET read   == [m EXCEPT !.reads = TaskSignature,
                                 !.argIter = Len(TaskSignature)]
             copied == CopyInTaskParameters(read, 1)
             index  == [s \in {TaskSymbols[k] : k \in 1..Len(TaskSymbols)} |->
                           <<"arg", ReadAt(read.reads, s)>>]
         IN  [copied EXCEPT !.mask = MarshalMask(type, FALSE, m.mask),
                            !.storage = index @@ @,
                            !.status = "done"]
    ELSE LET copied == CopyInParameters(m, 1)
             atEnd  == copied.argIter = m.nSig
             mask   == MarshalMask(type, ~atEnd, m.mask)
             masked == IF atEnd
                       THEN [copied EXCEPT !.mask = mask]
                       ELSE [copied EXCEPT !.mask = mask,
                                           !.reads = Append(@, "__mask"),
                                           !.argIter = @ + 1]
             index  == IF g.isXeTarget /\ type.isTask
                       THEN [s \in {TaskSymbols[k] : k \in 1..Len(TaskSymbols)} |->
                                <<"call", XeTaskBuiltin[s]>>]
                       ELSE <<>>
         IN  IF mask = "assert"
             THEN [copied EXCEPT !.status = "assert"]
             ELSE IF masked.argIter # m.nSig
             THEN [masked EXCEPT !.status = "assert"]
             ELSE [masked EXCEPT !.storage = index @@ @, !.status = "done"]

\* A Function of any kind with any args on any target, about to be emitted
\* into an llvm::Function: the one of a CPU task has the arguments that
\* 320-330 read; any other has at least the declared parameters (382).
InitMarshal ==
    /\ g \in Globals
    /\ \E type \in FunctionTypes, args \in ArgLists, extra \in 0..MaxExtraArgs :
          /\ sym = [type |-> type, function |-> "f", exportedFunction |-> NULL]
          /\ marshal = NewMarshal(args, IF type.isTask /\ ~g.isXeTarget
                                        THEN Len(TaskSignature)
                                        ELSE Len(args) + extra)
    /\ module = <<>>
    /\ errorCount = 0
    /\ calls = 0
    /\ this = [sym |-> "f", code |-> FALSE, costDelta |-> 0]
    /\ pc = "ec_params"
    /\ ret = NULL
    /\ ec = NoCtx
    /\ log = <<>>
    /\ NoSymbols
    /\ cmp = NULL
    /\ kernel = NULL
    /\ noalias = NULL

\* func.cpp 312-471 run on its own
EmitCodeMarshal ==
    /\ marshal.status = "start"
    /\ marshal' = MarshalParameters(sym.type, marshal)
    /\ UNCHANGED <<g, sym, module, errorCount, calls, this, pc, ret, ec, log>>
    /\ UNCHANGED <<symtab, heap, fn, inst, fate, cmp, kernel, noalias>>

NextMarshal == EmitCodeMarshal

SpecMarshal == InitMarshal /\ [][NextMarshal]_vars

\* Marshaling ran to its end on a CPU task
CPUTaskMarshaled ==
    marshal.status = "done" /\ sym.type.isTask /\ ~g.isXeTarget

\* Marshaling ran on a function that is not a CPU task
RegularMarshaled ==
    marshal.status # "start" /\ ~(sym.type.isTask /\ ~g.isXeTarget)

-----------------------------------------------------------------------------
(* C12 *)

-----------------------------------------------------------------------------
(* C13 *)

\* C13: outside the CPU-task path, with N declared parameters, anonymous
\* ones included: each parameter takes the signature position of its index.
\* With exactly N arguments marshaling either fails an assertion, when the
\* function is none of unmasked, exported, extern "C", extern "SYCL",
\* ISPC-external or kernel, or sets the mask all on.  With more arguments it
\* completes only if there are exactly N+1 and the function is not unmasked;
\* the mask is then the trailing argument, or all on under the hardware mask.
C13_MaskFromSignature ==
    RegularMarshaled =>
        LET N       == Len(marshal.args)
            type    == sym.type
            maskless == \/ type.isUnmasked \/ type.isExported \/ type.isExternC
                        \/ type.isExternSYCL
                        \/ (g.isXeTarget /\ (type.isExported \/ type.isExternC
                                                \/ type.isExternSYCL))
                        \/ (g.isXeTarget /\ type.isTask)
        IN  /\ \A i \in 1..N :
                  marshal.args[i] # NULL =>
                      marshal.storage[marshal.args[i]] = <<"arg", i>>
            /\ IF marshal.nSig = N
               THEN IF maskless
                    THEN marshal.status = "done" /\ marshal.mask = LLVMMaskAllOn
                    ELSE marshal.status = "assert"
               ELSE /\ marshal.status = "done" <=>
                          (marshal.nSig = N + 1 /\ ~type.isUnmasked)
                    /\ marshal.status = "done" =>
                          /\ marshal.reads[N + 1] = "__mask"
                          /\ marshal.mask = IF g.emitXeHardwareMask
                                            THEN LLVMMaskAllOn ELSE "__mask"

\* A function with an anonymous first and a named second parameter took its
\* mask from the third argument
C13_Witness ==
    /\ RegularMarshaled
    /\ marshal.status = "done"
    /\ Len(marshal.args) = 2
    /\ marshal.args[1] = NULL /\ marshal.args[2] # NULL
    /\ marshal.nSig = 3
    /\ marshal.mask = "__mask"

-----------------------------------------------------------------------------
(* Function::Function and TemplateInstantiation over the Symbol objects *)

\* Function objects constructed
MaxFunctions == 2

\* Symbol objects in existence
MaxSymbols == 4

\* InstantiateSymbol calls on the instantiation
MaxInstantiateCalls == 3

\* A type is recorded as far as func.cpp looks at it: what it is built on
\* (base) and whether CastType<ReferenceType> succeeds on it (isRef).

\* The parameters a FunctionType can declare: a by value, r by reference, one
\* that the parser named because the source did not, and one whose name
\* falls one character short of that convention
ParamDecls ==
    { [name |-> "a", isRef |-> FALSE],
      [name |-> "r", isRef |-> TRUE],
      [name |-> "__anon_parameter_0", isRef |-> FALSE],
      [name |-> "__anon_parameter", isRef |-> FALSE] }

\* type->GetNumParameters(), GetParameterName(i), GetParameterType(i), isTask
DeclaredTypes ==
    [params : {<<>>} \cup { <<d>> : d \in ParamDecls }
                     \cup { p \in ParamDecls \X ParamDecls : p[1] # p[2] },
     isTask : BOOLEAN]

\* The Symbol objects are named in the order of their creation
SymId(n) == "sym" \o ToString(n)

\* The Symbol of a builtin variable of the scope
BuiltinSym(name) == "sym_" \o name

\* The builtin names the constructor looks up
BuiltinNames == {"__mask"} \cup {TaskSymbols[k] : k \in 1..Len(TaskSymbols)}

\* The builtin names of which a scope is taken to lack at most one
MaybeMissing == {NULL, "__mask", "threadIndex", "taskIndex1", "taskCount2"}

\* The symbol tables the constructor can meet: every builtin but at most one
\* is declared; a name that a Symbol carries resolves to that Symbol or is
\* not declared; no other name is declared
SymbolTables(h) ==
    LET names    == {d.name : d \in ParamDecls}
        found(n) == {id \in DOMAIN h : h[id].name = n}
    IN  { b @@ p :
            b \in { [n \in BuiltinNames |-> IF n = missing THEN NULL ELSE BuiltinSym(n)] :
                      missing \in MaybeMissing },
            p \in { q \in [names -> {NULL} \cup DOMAIN h] :
                      \A n \in names : q[n] \in {NULL} \cup found(n) } }

\* m->symbolTable->LookupVariable(name)
LookupVariable(table, name) == table[name]

\* IsAnonymousName that accepts every name
IsAnonymousName_Any(name) == TRUE

\* func.cpp 174: strncmp(paramName, "__anon_parameter_", 17) == 0
IsAnonymousName(name) ==
    Len(name) >= 17 /\ SubSeq(name, 1, 17) = "__anon_parameter_"

\* BindParameter without the test for a reference type
BindParameter_BindsReferences(c, decl, table, self) ==
    IF c.failed THEN c
    ELSE LET paramSym == LookupVariable(table, decl.name)
         IN  IF paramSym = NULL /\ ~IsAnonymousName(decl.name)
             THEN [c EXCEPT !.failed = TRUE]
             ELSE [c EXCEPT !.args = Append(@, paramSym),
                            !.heap = IF paramSym # NULL
                                     THEN [@ EXCEPT ![paramSym].parentFunction = self]
                                     ELSE @]

\* func.cpp 171-179, one iteration of the loop over the declared parameters;
\* a failed Assert ends the loop and the process
BindParameter(c, decl, table, self) ==
    IF c.failed THEN c
    ELSE LET paramSym == LookupVariable(table, decl.name)
         IN  IF paramSym = NULL /\ ~IsAnonymousName(decl.name)
             THEN [c EXCEPT !.failed = TRUE]
             ELSE [c EXCEPT !.args = Append(@, paramSym),
                            !.heap = IF paramSym # NULL /\ ~decl.isRef
                                     THEN [@ EXCEPT ![paramSym].parentFunction = self]
                                     ELSE @]

RECURSIVE BindParameters(_, _, _, _, _)
\* func.cpp 170-180
BindParameters(c, params, i, table, self) ==
    IF i > Len(params) THEN c
    ELSE BindParameters(BindParameter(c, params[i], table, self), params, i + 1,
                        table, self)

\* BindTaskSymbols that looks the symbols up for every function
BindTaskSymbols_Always(isTask, table) ==
    [s \in {TaskSymbols[k] : k \in 1..Len(TaskSymbols)} |-> LookupVariable(table, s)]

\* func.cpp 182-209: threadIndexSym ... taskCountSym2
BindTaskSymbols(isTask, table) ==
    [s \in {TaskSymbols[k] : k \in 1..Len(TaskSymbols)} |->
        IF isTask THEN LookupVariable(table, s) ELSE NULL]

\* No Function constructed yet
NoFunction ==
    [n |-> 0, id |-> NULL, type |-> [params |-> <<>>, isTask |-> FALSE],
     maskSymbol |-> NULL, args |-> <<>>,
     task |-> [s \in {TaskSymbols[k] : k \in 1..Len(TaskSymbols)} |-> NULL]]

\* No TemplateInstantiation constructed yet
NoInstantiation ==
    [built |-> FALSE, args |-> <<>>, symMap |-> <<>>, functionSym |-> NULL,
     calls |-> <<>>, bound |-> FALSE, func |-> NULL, nullDeref |-> FALSE]

\* func.cpp 831-840: TemplateInstantiation(typeParms, typeArgs); functionSym
\* starts as nullptr and args maps each parameter name to its argument
NewTemplateInstantiation(typeParms, typeArgs) ==
    [NoInstantiation EXCEPT
        !.built = TRUE,
        !.args = [n \in {typeParms[i] : i \in 1..Len(typeParms)} |->
                    typeArgs[CHOOSE i \in 1..Len(typeParms) :
                                /\ typeParms[i] = n
                                /\ \A j \in i + 1..Len(typeParms) : typeParms[j] # n]]]

\* sym->type->ResolveDependence(*this): a type built on a template parameter
\* becomes the type built the same way on the parameter's argument
ResolveDependence(type, args) ==
    IF type.base \in DOMAIN args THEN [type EXCEPT !.base = args[type.base]] ELSE type

\* The Symbol objects of the parameters a (by value) and r (by reference) of
\* a function template over T
ParameterSymbols(parentOfA, parentOfR) ==
    (SymId(1) :> [name |-> "a", type |-> [base |-> "T", isRef |-> FALSE],
                  parentFunction |-> parentOfA])
    @@ (SymId(2) :> [name |-> "r", type |-> [base |-> "T", isRef |-> TRUE],
                     parentFunction |-> parentOfR])

\* What InitFunction and InitTemplate share: nothing of code generation runs
NoCodeGeneration ==
    /\ g = [isXeTarget |-> FALSE, mangleFunctionsWithTarget |-> FALSE,
            maskingIsFree |-> FALSE, disableCoherentControlFlow |-> FALSE,
            disableMaskAllOnOptimizations |-> FALSE, emitXeHardwareMask |-> FALSE]
    /\ module = <<>>
    /\ errorCount = 0
    /\ calls = 0
    /\ this = NULL
    /\ pc = "idle"
    /\ ret = NULL
    /\ ec = NoCtx
    /\ log = <<>>
    /\ marshal = NULL

\* Before new Function(sym, code): a function symbol of any declared type,
\* any symbol table, parameter symbols that no Function or that an earlier
\* Function "F0" is the parent of (163-180 and 882-888 both store there)
InitFunction ==
    /\ \E pa \in {NULL, "F0"}, pr \in {NULL, "F0"} : heap = ParameterSymbols(pa, pr)
    /\ symtab \in SymbolTables(heap)
    /\ \E type \in DeclaredTypes : sym = [type |-> type]
    /\ fn = NoFunction
    /\ inst = NoInstantiation
    /\ fate = "running"
    /\ cmp = NULL
    /\ kernel = NULL
    /\ noalias = NULL
    /\ NoCodeGeneration

\* func.cpp 163-212: new Function(sym, code)
FunctionConstructor ==
    /\ fate = "running"
    /\ fn.n < MaxFunctions
    /\ LET type  == sym.type
           self  == "F" \o ToString(fn.n + 1)
           mask  == LookupVariable(symtab, "__mask")
           bound == BindParameters([args |-> <<>>, heap |-> heap, failed |-> FALSE],
                                   type.params, 1, symtab, self)
           task  == BindTaskSymbols(type.isTask, symtab)
           ok    == /\ mask # NULL
                    /\ ~bound.failed
                    /\ type.isTask => \A s \in DOMAIN task : task[s] # NULL
       IN  /\ heap' = IF mask = NULL THEN heap ELSE bound.heap
           /\ fn' = IF ok
                    THEN [n |-> fn.n + 1, id |-> self, type |-> type,
                          maskSymbol |-> mask, args |-> bound.args, task |-> task]
                    ELSE [fn EXCEPT !.n = @ + 1]
           /\ fate' = IF ok THEN "running" ELSE "assert"
    /\ UNCHANGED <<g, sym, module, errorCount, calls, this, pc, ret, ec, log,
                   marshal, symtab, inst, cmp, kernel, noalias>>

NextFunction == FunctionConstructor

SpecFunction == InitFunction /\ [][NextFunction]_vars

\* The type parameters and the type arguments an instantiation is asked for
TemplateParmLists == {<<"T">>}

TemplateArgLists == {<<>>, <<"int">>, <<"float">>, <<"int", "float">>}

\* Before an instantiation of the function template: its parameters a and r,
\* declared in the symbol table, and no Function over them yet
InitTemplate ==
    /\ heap = ParameterSymbols(NULL, NULL)
    /\ symtab \in {t \in SymbolTables(heap) : \A n \in BuiltinNames \cup {"a", "r"} : t[n] # NULL}
    /\ sym = [type |-> [params |-> <<[name |-> "a", isRef |-> FALSE],
                                     [name |-> "r", isRef |-> TRUE]>>,
                        isTask |-> FALSE]]
    /\ fn = NoFunction
    /\ inst = NoInstantiation
    /\ fate = "running"
    /\ cmp = NULL
    /\ kernel = NULL
    /\ noalias = NULL
    /\ NoCodeGeneration

\* func.cpp 831-840: the constructor, with its Assert on the two counts
TemplateInstantiationConstructor ==
    /\ fate = "running"
    /\ ~inst.built
    /\ \E typeParms \in TemplateParmLists, typeArgs \in TemplateArgLists :
          IF Len(typeArgs) = Len(typeParms)
          THEN inst' = NewTemplateInstantiation(typeParms, typeArgs) /\ fate' = fate
          ELSE inst' = inst /\ fate' = "assert"
    /\ UNCHANGED <<g, sym, module, errorCount, calls, this, pc, ret, ec, log,
                   marshal, symtab, heap, fn, cmp, kernel, noalias>>

\* Memoized that never finds an entry
Memoized_Never(symMap, s) == FALSE

\* func.cpp 865-866: symMap.find(sym) != symMap.end()
Memoized(symMap, s) == s \in DOMAIN symMap

\* func.cpp 851-879: InstantiateSymbol(sym), for any Symbol or nullptr
InstantiateSymbol ==
    /\ fate = "running"
    /\ inst.built
    /\ Len(inst.calls) < MaxInstantiateCalls
    /\ \E s \in DOMAIN heap \cup {NULL} :
          IF s = NULL
          THEN /\ inst' = [inst EXCEPT !.calls = Append(@, <<s, NULL>>)]
               /\ heap' = heap
          ELSE IF Memoized(inst.symMap, s)
          THEN /\ inst' = [inst EXCEPT !.calls = Append(@, <<s, inst.symMap[s]>>)]
               /\ heap' = heap
          ELSE LET instSym == SymId(Cardinality(DOMAIN heap) + 1)
               IN  /\ Cardinality(DOMAIN heap) < MaxSymbols
                   /\ heap' = (instSym :>
                                 [name |-> heap[s].name,
                                  type |-> ResolveDependence(heap[s].type, inst.args),
                                  parentFunction |-> NULL]) @@ heap
                   /\ inst' = [inst EXCEPT !.symMap = (s :> instSym) @@ @,
                                           !.calls = Append(@, <<s, instSym>>)]
    /\ UNCHANGED <<g, sym, module, errorCount, calls, this, pc, ret, ec, log,
                   marshal, symtab, fn, fate, cmp, kernel, noalias>>

\* SetFunctionSymbols that passes over the symbols of reference type
SetFunctionSymbols_SkipsReferences(h, symMap, func) ==
    [id \in DOMAIN h |->
        IF (\E s \in DOMAIN symMap : symMap[s] = id) /\ ~h[id].type.isRef
        THEN [h[id] EXCEPT !.parentFunction = func]
        ELSE h[id]]

\* func.cpp 883-886: the loop over symMap
SetFunctionSymbols(h, symMap, func) ==
    [id \in DOMAIN h |->
        IF \E s \in DOMAIN symMap : symMap[s] = id
        THEN [h[id] EXCEPT !.parentFunction = func]
        ELSE h[id]]

\* func.cpp 882-888: SetFunction(func) with the Function constructed last.
\* The store at 887 goes through functionSym; through a null pointer it is
\* undefined: the process dies there, or it goes on without the store.
SetFunction ==
    /\ fate = "running"
    /\ inst.built
    /\ fn.id # NULL
    /\ LET func  == fn.id
           bound == SetFunctionSymbols(heap, inst.symMap, func)
       IN  IF inst.functionSym # NULL
           THEN /\ heap' = [bound EXCEPT ![inst.functionSym].parentFunction = func]
                /\ inst' = [inst EXCEPT !.bound = TRUE, !.func = func]
                /\ fate' = fate
           ELSE /\ heap' = bound
                /\ inst' = [inst EXCEPT !.bound = TRUE, !.func = func,
                                        !.nullDeref = TRUE]
                /\ fate' \in {"running", "crashed"}
    /\ UNCHANGED <<g, sym, module, errorCount, calls, this, pc, ret, ec, log,
                   marshal, symtab, fn, cmp, kernel, noalias>>

NextTemplate ==
    \/ TemplateInstantiationConstructor
    \/ InstantiateSymbol
    \/ FunctionConstructor
    \/ SetFunction

SpecTemplate == InitTemplate /\ [][NextTemplate]_vars

-----------------------------------------------------------------------------
(* Vocabulary of the properties of Function::Function and TemplateInstantiation *)

\* The constructor has run to its end and the Function exists
Constructed == fn.id # NULL /\ fate = "running"

\* The constructor has been entered at least once
ConstructorEntered == fn.n > 0

\* This step is a run of the constructor that reaches its end
ConstructorCompletes == fn'.n = fn.n + 1 /\ fate' = "running"

\* The Symbol the symbol table holds for the i-th declared parameter
DeclaredLookup(i) == symtab[sym.type.params[i].name]

-----------------------------------------------------------------------------
(* C14 *)

\* C14: a constructed Function has all ten thread/task index and count
\* symbols non-null, each the Symbol of its name, if its type is a task, and
\* all ten null otherwise; the constructor of a task whose scope lacks one of
\* the ten names fails an assertion and constructs nothing.
C14_TaskSymbolsIffTask ==
    LET ten == {"threadIndex", "threadCount", "taskIndex", "taskCount",
                "taskIndex0", "taskIndex1", "taskIndex2",
                "taskCount0", "taskCount1", "taskCount2"}
    IN  /\ Constructed =>
              /\ DOMAIN fn.task = ten
              /\ \A s \in ten :
                    IF sym.type.isTask
                    THEN fn.task[s] # NULL /\ fn.task[s] = symtab[s]
                    ELSE fn.task[s] = NULL
        /\ (ConstructorEntered /\ sym.type.isTask /\ \E s \in ten : symtab[s] = NULL)
              => fate = "assert" /\ fn.id = NULL

\* A task has been constructed in a scope that declares the ten names
C14_Witness ==
    /\ Constructed
    /\ sym.type.isTask
    /\ fn.task["threadIndex"] # NULL /\ fn.task["taskCount2"] # NULL

-----------------------------------------------------------------------------
(* C15 *)

\* C15: a constructed Function has one args entry per declared parameter, in
\* declaration order, each the Symbol the symbol table holds for the
\* parameter's name; an entry is null only if the lookup found nothing and
\* the name starts with "__anon_parameter_"; a lookup that finds nothing
\* for any other name fails an assertion and nothing is constructed.
C15_ArgsAreTheLookups ==
    LET params  == sym.type.params
        anon(n) == Len(n) >= 17 /\ SubSeq(n, 1, 17) = "__anon_parameter_"
    IN  /\ Constructed =>
              /\ Len(fn.args) = Len(params)
              /\ \A i \in 1..Len(params) :
                    /\ fn.args[i] = DeclaredLookup(i)
                    /\ fn.args[i] = NULL => anon(params[i].name)
        /\ (ConstructorEntered /\ \E i \in 1..Len(params) :
                                     DeclaredLookup(i) = NULL /\ ~anon(params[i].name))
              => fate = "assert" /\ fn.id = NULL

\* A function declared with an unnamed first parameter and a second named a
\* has been constructed: args holds null and the Symbol of a
C15_Witness ==
    /\ Constructed
    /\ Len(fn.args) = 2
    /\ sym.type.params[1].name = "__anon_parameter_0"
    /\ fn.args[1] = NULL
    /\ fn.args[2] = SymId(1)

-----------------------------------------------------------------------------
(* C16 *)

\* C16: a run of the constructor that reaches its end makes the new Function
\* the parentFunction of exactly the Symbols found for the declared
\* parameters whose declared type is no reference type; every other Symbol,
\* those of reference-typed parameters among them, keeps its parentFunction,
\* and no other field of a Symbol changes.
C16_ParentOfNonReferenceParameters ==
    [][ConstructorCompletes =>
          \A id \in DOMAIN heap :
              LET bound == \E i \in 1..Len(sym.type.params) :
                              /\ DeclaredLookup(i) = id
                              /\ ~sym.type.params[i].isRef
              IN  heap'[id] = [heap[id] EXCEPT
                                  !.parentFunction = IF bound THEN fn'.id ELSE @]]_vars

\* A function (a, r) has been constructed: the Symbol of a has the new
\* Function as its parent, the Symbol of the reference r still the old one
C16_Witness ==
    /\ Constructed
    /\ Len(fn.args) = 2
    /\ fn.args[1] = SymId(1) /\ fn.args[2] = SymId(2)
    /\ heap[SymId(1)].parentFunction = fn.id
    /\ heap[SymId(2)].parentFunction = "F0"

-----------------------------------------------------------------------------
(* C17 *)

\* C17: in every state that InstantiateSymbol, the Function constructor and
\* SetFunction can reach, no Symbol of reference type has a parentFunction,
\* the Symbols that InstantiateSymbol produced included.
C17_ReferenceSymbolsUnbound ==
    \A id \in DOMAIN heap :
        heap[id].type.isRef => heap[id].parentFunction = NULL

-----------------------------------------------------------------------------
(* C18 *)

\* The original Symbols InstantiateSymbol was called with before call i
AskedBefore(i) == {inst.calls[j][1] : j \in 1..i - 1}

\* This step is a call of InstantiateSymbol
InstantiateSymbolCall == Len(inst'.calls) = Len(inst.calls) + 1

\* C18: over the calls of InstantiateSymbol on one instantiation, a null
\* argument returns null, a non-null argument returns a Symbol, and two calls
\* with the same argument return the same Symbol; the map holds exactly the
\* non-null arguments, each with the Symbol returned for it, and there are
\* as many instantiated Symbols as distinct non-null arguments.  A call
\* creates a Symbol exactly when its argument is non-null and was not
\* asked before, and then returns the new Symbol; a call with null leaves
\* the map as it is.
C18_InstantiateSymbolMemoized ==
    /\ [](LET cs    == inst.calls
              asked == {cs[i][1] : i \in 1..Len(cs)} \ {NULL}
          IN  /\ \A i \in 1..Len(cs) :
                    /\ cs[i][1] = NULL => cs[i][2] = NULL
                    /\ cs[i][1] # NULL => cs[i][2] # NULL /\ cs[i][2] \in DOMAIN heap
                    /\ \A j \in 1..Len(cs) : cs[i][1] = cs[j][1] => cs[i][2] = cs[j][2]
              /\ DOMAIN inst.symMap = asked
              /\ \A i \in 1..Len(cs) :
                    cs[i][1] # NULL => inst.symMap[cs[i][1]] = cs[i][2]
              /\ Cardinality(DOMAIN heap) = 2 + Cardinality(asked))
    /\ [][InstantiateSymbolCall =>
            LET n     == Len(inst'.calls)
                s     == inst'.calls[n][1]
                r     == inst'.calls[n][2]
                first == s # NULL /\ s \notin AskedBefore(n)
            IN  /\ first <=> DOMAIN heap' # DOMAIN heap
                /\ first => r \notin DOMAIN heap /\ DOMAIN heap' = DOMAIN heap \cup {r}
                /\ ~first => heap' = heap /\ inst'.symMap = inst.symMap
                /\ \A id \in DOMAIN heap : heap'[id] = heap[id]]_vars

\* InstantiateSymbol was called twice with the Symbol of a and once with
\* null: one Symbol was created
C18_Witness ==
    /\ inst.built
    /\ Len(inst.calls) = 3
    /\ inst.calls[1][1] = SymId(1)
    /\ inst.calls[2] = inst.calls[1]
    /\ inst.calls[3] = <<NULL, NULL>>
    /\ DOMAIN heap = {SymId(1), SymId(2), inst.calls[1][2]}

-----------------------------------------------------------------------------
(* C19 *)

\* This step is a call of SetFunction that changes the state
SetFunctionCall ==
    /\ inst.built /\ inst'.built
    /\ inst'.bound
    /\ inst'.calls = inst.calls
    /\ fn' = fn

\* C19: right after SetFunction(func) on an instantiation built by the
\* constructor and any calls of InstantiateSymbol, every Symbol of the map
\* and the function Symbol of the instantiation have func as parentFunction,
\* and the call has come to its end without a store through a null
\* function Symbol.
C19_SetFunctionBindsAll ==
    [][SetFunctionCall =>
          /\ \A s \in DOMAIN inst'.symMap :
                heap'[inst'.symMap[s]].parentFunction = inst'.func
          /\ inst'.functionSym # NULL
          /\ heap'[inst'.functionSym].parentFunction = inst'.func
          /\ ~inst'.nullDeref
          /\ fate' = "running"]_vars

-----------------------------------------------------------------------------
(* TemplateParms::IsEqual and TemplateArgs::IsEqual *)

\* length of the lists compared
MaxListLen == 2

\* Type objects: two objects can describe the same type
TypeObjects == [is : {"int", "float"}, object : {1, 2}]

\* Type::Equal(a, b): the two objects describe the same type
TypeEqual(a, b) == a.is = b.is

\* std::pair<const Type *, SourcePos>
TypeArguments == [first : TypeObjects, second : {"pos1", "pos2"}]

\* The lists of at most MaxListLen elements of S
ListsOf(S) == UNION { [1..n -> S] : n \in 0..MaxListLen }

\* A pointer to a TemplateParms: nullptr, or the address of a list
ParmsPointers ==
    {[null |-> TRUE, parms |-> <<>>]}
        \cup {[null |-> FALSE, parms |-> l] : l \in ListsOf(TypeObjects)}

RECURSIVE ParmsEqualFrom(_, _, _)
\* func.cpp 802-808: the loop, from index i on
ParmsEqualFrom(a, b, i) ==
    IF i > Len(a) THEN TRUE
    ELSE IF ~TypeEqual(a[i], b[i]) THEN FALSE
    ELSE ParmsEqualFrom(a, b, i + 1)

\* TemplateParmsIsEqual that looks for each type anywhere in the other list
TemplateParmsIsEqual_AnyOrder(self, p) ==
    IF p.null THEN FALSE
    ELSE IF Len(self) # Len(p.parms) THEN FALSE
    ELSE \A i \in 1..Len(self) : \E j \in 1..Len(p.parms) : TypeEqual(self[i], p.parms[j])

\* func.cpp 793-809: TemplateParms::IsEqual(p) on the list self
TemplateParmsIsEqual(self, p) ==
    IF p.null THEN FALSE
    ELSE IF Len(self) # Len(p.parms) THEN FALSE
    ELSE ParmsEqualFrom(self, p.parms, 1)

RECURSIVE ArgsEqualFrom(_, _, _)
\* func.cpp 820-825: the loop, from index i on
ArgsEqualFrom(a, b, i) ==
    IF i > Len(a) THEN TRUE
    ELSE IF ~TypeEqual(a[i].first, b[i].first) THEN FALSE
    ELSE ArgsEqualFrom(a, b, i + 1)

\* func.cpp 816-826: TemplateArgs::IsEqual(otherArgs) on the list args
TemplateArgsIsEqual(args, otherArgs) ==
    IF Len(args) # Len(otherArgs) THEN FALSE
    ELSE ArgsEqualFrom(args, otherArgs, 1)

\* Two lists of template parameters, the second behind a pointer that can
\* be null, or two lists of template arguments
InitEqual ==
    /\ \/ \E a \in ListsOf(TypeObjects), p \in ParmsPointers :
             cmp = [of |-> "TemplateParms", a |-> a, b |-> p, done |-> FALSE,
                    ab |-> FALSE, ba |-> FALSE, aa |-> FALSE]
       \/ \E a \in ListsOf(TypeArguments), b \in ListsOf(TypeArguments) :
             cmp = [of |-> "TemplateArgs", a |-> a, b |-> b, done |-> FALSE,
                    ab |-> FALSE, ba |-> FALSE, aa |-> FALSE]
    /\ sym = NULL
    /\ NoSymbols
    /\ NoCodeGeneration
    /\ kernel = NULL
    /\ noalias = NULL

\* func.cpp 793-809: a.IsEqual(b), b.IsEqual(a) and a.IsEqual(a); a null
\* pointer cannot be called on
CompareTemplateParms ==
    /\ cmp.of = "TemplateParms"
    /\ ~cmp.done
    /\ cmp' = [cmp EXCEPT
                 !.done = TRUE,
                 !.ab = TemplateParmsIsEqual(cmp.a, cmp.b),
                 !.ba = IF cmp.b.null THEN FALSE
                        ELSE TemplateParmsIsEqual(cmp.b.parms,
                                                  [null |-> FALSE, parms |-> cmp.a]),
                 !.aa = TemplateParmsIsEqual(cmp.a, [null |-> FALSE, parms |-> cmp.a])]
    /\ UNCHANGED <<g, sym, module, errorCount, calls, this, pc, ret, ec, log,
                   marshal, symtab, heap, fn, inst, fate, kernel, noalias>>

\* func.cpp 816-826: a.IsEqual(b), b.IsEqual(a) and a.IsEqual(a)
CompareTemplateArgs ==
    /\ cmp.of = "TemplateArgs"
    /\ ~cmp.done
    /\ cmp' = [cmp EXCEPT
                 !.done = TRUE,
                 !.ab = TemplateArgsIsEqual(cmp.a, cmp.b),
                 !.ba = TemplateArgsIsEqual(cmp.b, cmp.a),
                 !.aa = TemplateArgsIsEqual(cmp.a, cmp.a)]
    /\ UNCHANGED <<g, sym, module, errorCount, calls, this, pc, ret, ec, log,
                   marshal, symtab, heap, fn, inst, fate, kernel, noalias>>

NextEqual ==
    \/ CompareTemplateParms
    \/ CompareTemplateArgs

SpecEqual == InitEqual /\ [][NextEqual]_vars

-----------------------------------------------------------------------------
(* C20 *)

\* C20: both IsEqual functions answer true exactly when the two lists have
\* the same length and the types at each position are Type::Equal, whatever
\* the source positions of the arguments; hence a list equals itself, a
\* equals b exactly when b equals a, and two lists of the same two different
\* types in opposite orders are unequal.  TemplateParms::IsEqual(nullptr)
\* answers false.
C20_IsEqualPositionwise ==
    cmp.done =>
        LET a == cmp.a
            b == IF cmp.of = "TemplateParms" THEN cmp.b.parms ELSE cmp.b
            typeAt(l, i) == IF cmp.of = "TemplateParms" THEN l[i].is ELSE l[i].first.is
            same == /\ Len(a) = Len(b)
                    /\ \A i \in 1..Len(a) : typeAt(a, i) = typeAt(b, i)
        IN  IF cmp.of = "TemplateParms" /\ cmp.b.null
            THEN ~cmp.ab /\ cmp.aa
            ELSE /\ cmp.ab <=> same
                 /\ cmp.ba <=> cmp.ab
                 /\ cmp.aa
                 /\ (/\ Len(a) = 2 /\ Len(b) = 2
                     /\ typeAt(a, 1) # typeAt(a, 2)
                     /\ typeAt(b, 1) = typeAt(a, 2) /\ typeAt(b, 2) = typeAt(a, 1))
                       => ~cmp.ab

\* Two argument lists of the same types at other source positions have
\* compared equal
C20_Witness ==
    /\ cmp.done
    /\ cmp.of = "TemplateArgs"
    /\ Len(cmp.a) = 2 /\ Len(cmp.b) = 2
    /\ cmp.a[1].first.is # cmp.a[2].first.is
    /\ cmp.a[1].second # cmp.b[1].second
    /\ cmp.a[1].first.object # cmp.b[1].first.object
    /\ cmp.ab

-----------------------------------------------------------------------------
(* emitCode's kernel metadata, func.cpp 572-640: what emitCode registers
   for a kernel-qualified function on an Xe target, over parameter lists
   with anonymous entries. *)

\* Parameters of the kernel
MaxKernelArgs == 3

\* func.cpp 591: the offset the first argument is considered for.  offset is
\* an unsigned int; with MaxKernelArgs arguments of the types below it stays
\* under 32 + 128 * MaxKernelArgs and never wraps.
KernelArgBase == 32

\* g->target->getXeGrfSize(): the bytes of one register of the register file
XeGrfSizes == {32, 64}

\* The LLVM types of kernel parameters: getScalarSizeInBits(),
\* isa<llvm::VectorType>, getPrimitiveSizeInBits(), isPtrOrPtrVectorTy()
LLVMTypes ==
    [ i8     |-> [scalarBits |-> 8,  vector |-> FALSE, primitiveBits |-> 8,   ptr |-> FALSE],
      i32    |-> [scalarBits |-> 32, vector |-> FALSE, primitiveBits |-> 32,  ptr |-> FALSE],
      i64    |-> [scalarBits |-> 64, vector |-> FALSE, primitiveBits |-> 64,  ptr |-> FALSE],
      ptr    |-> [scalarBits |-> 0,  vector |-> FALSE, primitiveBits |-> 0,   ptr |-> TRUE],
      v16i1  |-> [scalarBits |-> 1,  vector |-> TRUE,  primitiveBits |-> 16,  ptr |-> FALSE],
      v4i32  |-> [scalarBits |-> 32, vector |-> TRUE,  primitiveBits |-> 128, ptr |-> FALSE],
      v8i32  |-> [scalarBits |-> 32, vector |-> TRUE,  primitiveBits |-> 256, ptr |-> FALSE],
      v16i32 |-> [scalarBits |-> 32, vector |-> TRUE,  primitiveBits |-> 512, ptr |-> FALSE] ]

\* args of the Function: the type of each parameter symbol, or NULL for an
\* anonymous parameter
KernelArgLists ==
    UNION { [1..n -> DOMAIN LLVMTypes \cup {NULL}] : n \in 0..MaxKernelArgs }

\* llvm::alignTo(Value, Align): the next multiple of Align at or above Value
alignTo(Value, Align) == ((Value + Align - 1) \div Align) * Align

RECURSIVE BitAnd(_, _)
\* a & b on unsigned values
BitAnd(a, b) ==
    IF a = 0 \/ b = 0 THEN 0
    ELSE (a % 2) * (b % 2) + 2 * BitAnd(a \div 2, b \div 2)

\* CrossesGRF that never pads
CrossesGRF_Never(offset, bytes, grf_size) == FALSE

\* func.cpp 613: (offset & (grf_size - 1)) + bytes > grf_size
CrossesGRF(offset, bytes, grf_size) ==
    BitAnd(offset, grf_size - 1) + bytes > grf_size

\* func.cpp 604-616: the offset the argument of LLVM type name t is placed
\* at, when the loop reaches it with offset
PlaceArg(offset, t, grf_size) ==
    LET type == LLVMTypes[t]
        bytes == type.scalarBits \div 8
        aligned == IF bytes # 0 THEN alignTo(offset, bytes) ELSE offset
    IN  IF type.vector /\ CrossesGRF(aligned, type.primitiveBits \div 8, grf_size)
        THEN alignTo(aligned, grf_size)
        ELSE aligned

\* func.cpp 605, 611: the bytes the loop adds for an argument of type name t
ArgBytes(t) ==
    IF LLVMTypes[t].vector THEN LLVMTypes[t].primitiveBits \div 8
    ELSE LLVMTypes[t].scalarBits \div 8

\* func.cpp 598-602: the type description of an argument
ArgTypeDesc(t) == IF LLVMTypes[t].ptr THEN "svmptr_t read_write" ELSE ""

\* Before the metadata is emitted
NewKernel(args, grf_size) ==
    [args |-> args, grf_size |-> grf_size, offset |-> KernelArgBase,
     placed |-> <<>>, argKinds |-> <<>>, argInOutKinds |-> <<>>,
     argTypeDescs |-> <<>>, nullDeref |-> FALSE, md |-> <<>>, oclrt |-> FALSE,
     status |-> "start"]

\* func.cpp 594-618: one iteration of the loop for an argument whose symbol
\* has the type named t; placed keeps the type the iteration read and the
\* offset it computed for the argument
KernelArg(k, t) ==
    LET at == PlaceArg(k.offset, t, k.grf_size)
    IN  [k EXCEPT !.argKinds = Append(@, "AK_NORMAL"),
                  !.argInOutKinds = Append(@, "IK_NORMAL"),
                  !.argTypeDescs = Append(@, ArgTypeDesc(t)),
                  !.placed = Append(@, [type |-> t, offset |-> at]),
                  !.offset = at + ArgBytes(t)]

\* llvm::MDNode::get(fContext, operands)
MDNode(operands) == [node |-> TRUE, value |-> 0, operands |-> operands]

\* llvm::ValueAsMetadata::get(llvm::ConstantInt::getNullValue(i32Type))
MDNullValue == [node |-> FALSE, value |-> 0, operands |-> <<>>]

\* func.cpp 623-639: the node added to genx.kernels and the launch attribute
RegisterKernel(k) ==
    [k EXCEPT !.md = [FunctionRef |-> "function", Name |-> "sym->name",
                      ArgKinds |-> MDNode(k.argKinds),
                      SLMSize |-> MDNullValue,
                      ArgOffsets |-> MDNullValue,
                      ArgIOKinds |-> MDNode(k.argInOutKinds),
                      ArgTypeDescs |-> MDNode(k.argTypeDescs),
                      NBarrierCnt |-> MDNullValue,
                      BarrierCnt |-> MDNullValue],
              !.oclrt = TRUE,
              !.status = "done"]

RECURSIVE KernelMetadata(_, _)
\* func.cpp 593-639: the outcomes of the loop from parameter i on, and of
\* the registration after it.  args[i]->type on an anonymous parameter
\* reads through a null pointer: the process ends there, or the read
\* yields some type and the loop goes on.
KernelMetadata(k, i) ==
    IF i > Len(k.args) THEN {RegisterKernel(k)}
    ELSE IF k.args[i] = NULL
         THEN {[k EXCEPT !.nullDeref = TRUE, !.status = "crashed"]}
                \cup UNION { KernelMetadata(KernelArg([k EXCEPT !.nullDeref = TRUE], t), i + 1) :
                               t \in DOMAIN LLVMTypes }
         ELSE KernelMetadata(KernelArg(k, k.args[i]), i + 1)

\* A kernel-qualified function on an Xe target, its body emitted
InitKernel ==
    /\ \E args \in KernelArgLists, grf_size \in XeGrfSizes :
          kernel = NewKernel(args, grf_size)
    /\ sym = NULL
    /\ NoSymbols
    /\ NoCodeGeneration
    /\ cmp = NULL
    /\ noalias = NULL

\* func.cpp 572-640
EmitKernelMetadata ==
    /\ kernel.status = "start"
    /\ kernel' \in KernelMetadata(kernel, 1)
    /\ fate' = IF kernel'.status = "crashed" THEN "crashed" ELSE fate
    /\ UNCHANGED <<g, sym, module, errorCount, calls, this, pc, ret, ec, log,
                   marshal, symtab, heap, fn, inst, cmp, noalias>>

NextKernel == EmitKernelMetadata

SpecKernel == InitKernel /\ [][NextKernel]_vars

\* The kernel's metadata node has been registered
KernelRegistered == kernel.status = "done"

\* The least multiple of m at or above v
LeastMultipleAtLeast(v, m) == CHOOSE x \in v..(v + m - 1) : x % m = 0

-----------------------------------------------------------------------------
(* C21 *)

\* C21: the offsets of the kernel arguments start from 32; each argument's
\* offset is the end of the one before it, rounded up to a multiple of the
\* argument's scalar byte size when that is not zero, and then, for a vector
\* that would reach past the end of the granule from there, rounded up to
\* the next granule boundary; its size is added after that.  So no vector of
\* at most one granule lies across a granule boundary, and every argument
\* starts at a multiple of its scalar size.
C21_KernelArgOffsets ==
    \A i \in 1..Len(kernel.placed) :
        LET type == LLVMTypes[kernel.placed[i].type]
            granule == kernel.grf_size
            scalar == type.scalarBits \div 8
            size == IF type.vector THEN type.primitiveBits \div 8 ELSE scalar
            before == IF i = 1 THEN 32
                      ELSE LET p == LLVMTypes[kernel.placed[i - 1].type]
                           IN  kernel.placed[i - 1].offset
                                 + (IF p.vector THEN p.primitiveBits \div 8
                                    ELSE p.scalarBits \div 8)
            rounded == IF scalar # 0 THEN LeastMultipleAtLeast(before, scalar)
                       ELSE before
            at == kernel.placed[i].offset
        IN  /\ at = IF type.vector /\ (rounded % granule) + size > granule
                    THEN LeastMultipleAtLeast(rounded, granule)
                    ELSE rounded
            /\ (type.vector /\ size > 0 /\ size <= granule)
                  => at \div granule = (at + size - 1) \div granule
            /\ scalar # 0 => at % scalar = 0
            /\ i = Len(kernel.placed) => kernel.offset = at + size

\* A kernel's metadata is registered after a vector argument was padded to
\* the next granule boundary and a scalar was rounded up to its size
C21_Witness ==
    /\ KernelRegistered
    /\ ~kernel.nullDeref
    /\ \E i \in 2..Len(kernel.placed) :
          /\ LLVMTypes[kernel.placed[i].type].vector
          /\ kernel.placed[i].offset % kernel.grf_size = 0
          /\ kernel.placed[i].offset
                > kernel.placed[i - 1].offset + ArgBytes(kernel.placed[i - 1].type) + 3
    /\ \E i \in 2..Len(kernel.placed) :
          /\ ~LLVMTypes[kernel.placed[i].type].vector
          /\ kernel.placed[i].offset
                > kernel.placed[i - 1].offset + ArgBytes(kernel.placed[i - 1].type)

-----------------------------------------------------------------------------
(* C22 *)

\* C22: the metadata node registered for a kernel gives, for each argument,
\* the kind normal, the direction normal and the byte offset the loop
\* computed for it: its argument-offsets field carries the computed offsets.
C22_MetadataCarriesOffsets ==
    KernelRegistered =>
        LET n == Len(kernel.args)
        IN  /\ kernel.md.ArgKinds = MDNode([i \in 1..n |-> "AK_NORMAL"])
            /\ kernel.md.ArgIOKinds = MDNode([i \in 1..n |-> "IK_NORMAL"])
            /\ kernel.md.ArgOffsets = MDNode([i \in 1..n |-> kernel.placed[i].offset])

-----------------------------------------------------------------------------
(* C23 *)

\* C23: every emitCode run ends with no open current block.  With checkMask
\* each of the two copies of the body is closed by an inserted return
\* exactly when its emission left a block open, and no further return is
\* inserted; without checkMask the only return inserted is the final one,
\* into the block the body left open, or into the entry block when there is
\* no body.  No block receives two inserted returns, and inserting the
\* final return reports no error.
C23_ReturnsCloseOpenBlocks ==
    /\ [](EmitCodeDone =>
            LET closed == {ec.rets[i] : i \in 1..Len(ec.rets)}
                left == {ec.ends[n] : n \in 1..Len(ec.ends)} \ {NULL}
            IN  /\ ec.bblock = NULL
                /\ IF ec.checkMask
                   THEN /\ Len(ec.ends) = 2
                        /\ \A n \in 1..2 : BodyEnd(n) \in closed <=> ec.ends[n] # NULL
                        /\ closed = left
                   ELSE IF Len(ec.ends) = 1
                        THEN closed = left
                        ELSE Len(ec.ends) = 0 /\ ec.rets = <<"entry">>)
    /\ [](\A i, j \in 1..Len(ec.rets) : i # j => ec.rets[i] # ec.rets[j])
    /\ [](\A i \in 1..Len(ec.rets) : ec.rets[i] # NULL)
    /\ [][pc = "ec_end" => /\ errorCount' = errorCount
                           /\ log' = log
                           /\ Len(ec'.rets) = Len(ec.rets) + (IF ec.bblock # NULL THEN 1 ELSE 0)]_vars

\* An emitCode run with checkMask has ended after both copies of the body
\* fell through and each got its return
C23_Witness ==
    /\ EmitCodeDone
    /\ ec.checkMask
    /\ ec.rets = <<BodyEnd(1), BodyEnd(2)>>
    /\ ec.bblock = NULL

-----------------------------------------------------------------------------
(* C24 *)

\* C24: once SetFunction(func) has been called on an instantiation, in
\* every later state every instantiated Symbol of that instantiation has
\* func as parentFunction, the Symbols that InstantiateSymbol produces
\* after the call included.
C24_BoundEverAfter ==
    (inst.built /\ inst.bound) =>
        \A s \in DOMAIN inst.symMap :
            heap[inst.symMap[s]].parentFunction = inst.func

-----------------------------------------------------------------------------
(* C25 *)

\* C25: emitCode never reads through a null parameter Symbol: the kernel
\* metadata loop, like the copy-in of the task parameters and the ordinary
\* parameter marshaling, passes over the entries of args that are null, so
\* the metadata of a kernel with anonymous parameters is registered with no
\* read through a null pointer.
C25_NullArgsTolerated ==
    kernel.status # "start" =>
        /\ ~kernel.nullDeref
        /\ kernel.status = "done"
        /\ fate = "running"

-----------------------------------------------------------------------------
(* The NoAlias attributes of the application function, func.cpp 739-745,
   which GenerateIR copies from the parameters of sym->function. *)

\* Declared parameters of the function
MaxDeclaredParams == 2

\* function->getFunctionType()->getNumParams(): the declared parameters,
\* and the mask when the signature of sym->function ends with one
NumParams(type, nDeclared) ==
    nDeclared + (IF HasMaskParam(type, FALSE) THEN 1 ELSE 0)

\* func.cpp 739-745: the parameters of appFunction that get NoAlias, from
\* the parameter count of function and the parameters of function that
\* have it
CopyNoAlias(numParams, hasParamAttribute) ==
    IF numParams > 0
    THEN {i \in 0..(numParams - 2) : i \in hasParamAttribute}
    ELSE {}

\* GenerateIR at 704-738, with no error so far, for a function whose kind
\* gets an application function; any of its declared parameters can have
\* NoAlias on sym->function.  A definition declared extern "SYCL" does not
\* get here (661-664).
InitNoAlias ==
    /\ g \in Globals
    /\ \E type \in FunctionTypes, nDeclared \in 0..MaxDeclaredParams :
          \E hasParamAttribute \in SUBSET (0..(nDeclared - 1)) :
             /\ WantsAppFunction(type)
             /\ ~DefinedExternSYCL(type)
             /\ noalias = [type |-> type, nDeclared |-> nDeclared,
                           numParams |-> NumParams(type, nDeclared),
                           function |-> hasParamAttribute,
                           appFunction |-> {}, created |-> FALSE]
    /\ sym = NULL
    /\ module = <<>>
    /\ errorCount = 0
    /\ calls = 0
    /\ this = NULL
    /\ pc = "idle"
    /\ ret = NULL
    /\ ec = NoCtx
    /\ log = <<>>
    /\ marshal = NULL
    /\ NoSymbols
    /\ cmp = NULL
    /\ kernel = NULL

\* func.cpp 716-745: appFunction is created and gets its NoAlias attributes
CreateAppFunction ==
    /\ ~noalias.created
    /\ noalias' = [noalias EXCEPT
                     !.created = TRUE,
                     !.appFunction = CopyNoAlias(noalias.numParams, noalias.function)]
    /\ UNCHANGED <<g, sym, module, errorCount, calls, this, pc, ret, ec, log,
                   marshal, symtab, heap, fn, inst, fate, cmp, kernel>>

NextNoAlias == CreateAppFunction

SpecNoAlias == InitNoAlias /\ [][NextNoAlias]_vars

-----------------------------------------------------------------------------
(* C26 *)

\* C26: when GenerateIR has created the application function, every
\* declared parameter that has NoAlias on the internal function has it on
\* the application function, whether or not the signature of the internal
\* function ends with a mask parameter.
C26_NoAliasCopied ==
    noalias.created =>
        \A i \in 0..(noalias.nDeclared - 1) :
            i \in noalias.function => i \in noalias.appFunction

====
